---------------------------- MODULE Spec2Model ----------------------------
(***************************************************************************)
(* Model of typejson_titlecraft: the Client of core.py (construction,      *)
(* input validation, two-way dispatch to the upstream call shapes,         *)
(* post-processing, failure mapping) and the CLI entry point of cli.py.    *)
(*                                                                         *)
(* Strings that the code trims or measures are kept run-length encoded: a  *)
(* string is a sequence of runs [ch, n] (n >= 1 copies of character ch),   *)
(* adjacent runs holding different characters.  Messages are sequences of  *)
(* literal fragments, concatenated with \o.                                *)
(***************************************************************************)
EXTENDS Integers, Sequences, FiniteSets, TLC

\* ------------------------------------------------------------- bounds

\* Longest run of one character in an upstream payload.
MaxRunLen == 2
\* Most runs in an upstream payload.
MaxPayloadRuns == 3
\* Most whitespace characters put before / after an input text.
MaxPad == 1
\* Most generate_title calls made on one client.
MaxCalls == 2

\* ------------------------------------------------ program constants

SUPPORTED_MODELS ==
    <<"gpt-5", "gpt-5-mini", "gpt-5-nano", "gpt-4o", "gpt-4o-mini", "gpt-4",
      "gpt-3.5-turbo">>

GPT5_MODELS == {"gpt-5", "gpt-5-mini", "gpt-5-nano"}

DEFAULT_MODEL == "gpt-4o"

\* len(text) > 8000
MAX_TEXT_LEN == 8000
\* max_completion_tokens=50
MAX_COMPLETION_TOKENS == 50
\* temperature=0.3, kept in tenths
TEMPERATURE_TENTHS == 3
\* timeout=30.0
TIMEOUT == 30

STATUS_RATE_LIMIT == 429
STATUS_UNAUTHORIZED == 401
STATUS_SERVER_ERROR == 500

\* ------------------------------------------------------------ strings

Range(s) == {s[i] : i \in 1..Len(s)}

\* Python's default str.strip() set (the characters the model generates).
WHITESPACE == {" ", "\n"}
DQUOTE == {"\""}
SQUOTE == {"'"}

Run(c, k) == [ch |-> c, n |-> k]

\* c repeated k times; the empty string for k = 0.
Rep(c, k) == IF k = 0 THEN <<>> ELSE <<Run(c, k)>>

\* String concatenation: the runs that meet are merged when they hold the
\* same character.
Cat(a, b) ==
    IF a = <<>> THEN b
    ELSE IF b = <<>> THEN a
    ELSE IF a[Len(a)].ch = b[1].ch
         THEN SubSeq(a, 1, Len(a) - 1)
                \o <<Run(b[1].ch, a[Len(a)].n + b[1].n)>>
                \o SubSeq(b, 2, Len(b))
         ELSE a \o b

\* len(s)
RECURSIVE StrLen(_)
StrLen(s) == IF s = <<>> THEN 0 ELSE s[1].n + StrLen(Tail(s))

\* s.lstrip(chars): drop leading characters while they are in chars.
RECURSIVE LStrip(_, _)
LStrip(s, chars) ==
    IF s # <<>> /\ s[1].ch \in chars THEN LStrip(Tail(s), chars) ELSE s

\* s.rstrip(chars)
RECURSIVE RStrip(_, _)
RStrip(s, chars) ==
    IF s # <<>> /\ s[Len(s)].ch \in chars
    THEN RStrip(SubSeq(s, 1, Len(s) - 1), chars)
    ELSE s

\* s.strip(chars)
Strip(s, chars) == RStrip(LStrip(s, chars), chars)

\* Python truthiness of a string.
Truthy(s) == s # <<>>

\* ---------------------------------------------------- optional values

\* A str | None value: None, or a string (possibly empty).
None == [isNone |-> TRUE, str |-> <<>>]
Some(s) == [isNone |-> FALSE, str |-> s]
\* Python truthiness of a str | None value.
TruthyOpt(o) == ~o.isNone /\ Truthy(o.str)

\* --------------------------------------------------------- exceptions

Raise(t, m, c) == [kind |-> "raise", type |-> t, msg |-> m, value |-> <<>>, cause |-> c]
Return(v) == [kind |-> "return", type |-> "", msg |-> <<>>, value |-> v, cause |-> ""]
NoOutcome == [kind |-> "none", type |-> "", msg |-> <<>>, value |-> <<>>, cause |-> ""]

\* TitleCraftError and its two subclasses.
TitleCraftErrors == {"TitleCraftError", "APIError", "ValidationError"}


\* An exception object as generate_title's handler sees it: its class, its
\* str() and its status_code attribute (absent, a number, or None).
NoStatus == [has |-> FALSE, numeric |-> FALSE, code |-> 0]
NumStatus(c) == [has |-> TRUE, numeric |-> TRUE, code |-> c]
NoneStatus == [has |-> TRUE, numeric |-> FALSE, code |-> 0]
Exc(t, m, st) == [type |-> t, msg |-> m, status |-> st]

\* ------------------------------------------------------ Client.__init__

NoClient == [constructed |-> FALSE, model |-> "", api_key |-> <<>>]

\* ', '.join(SUPPORTED_MODELS)
RECURSIVE Join(_, _)
Join(sep, names) ==
    IF names = <<>> THEN <<>>
    ELSE IF Len(names) = 1 THEN <<names[1]>>
    ELSE <<names[1], sep>> \o Join(sep, Tail(names))

\* (A variant that never looks at the environment.)
ResolveApiKey_NoEnv(openai_api_key, env_key) == openai_api_key

\* openai_api_key or os.getenv("OPENAI_API_KEY")
ResolveApiKey(openai_api_key, env_key) ==
    IF TruthyOpt(openai_api_key) THEN openai_api_key ELSE env_key

\* Client(openai_api_key, model) with OPENAI_API_KEY = env_key: the outcome
\* and the object built.
ClientInit(openai_api_key, model, env_key) ==
    LET api_key == ResolveApiKey(openai_api_key, env_key) IN
    IF model \notin Range(SUPPORTED_MODELS)
    THEN [outcome |-> Raise("ValidationError",
                            <<"Unsupported model '", model, "'. Supported models: ">>
                              \o Join(", ", SUPPORTED_MODELS), ""),
          client |-> NoClient]
    ELSE IF ~TruthyOpt(api_key)
    THEN [outcome |-> Raise("ValidationError",
                            <<"OpenAI API key required. Provide it via openai_api_key parameter ",
                              "or set OPENAI_API_KEY environment variable.">>, ""),
          client |-> NoClient]
    ELSE [outcome |-> Return(<<>>),
          client |-> [constructed |-> TRUE, model |-> model, api_key |-> api_key.str]]

\* --------------------------------------------- generate_title: validation

\* (A variant that measures the text before trimming it.)
ValidateInput_RawLength(text) ==
    IF ~Truthy(text) \/ ~Truthy(Strip(text, WHITESPACE))
    THEN [ok |-> FALSE, text |-> <<>>,
          outcome |-> Raise("ValidationError", <<"Input text cannot be empty.">>, "")]
    ELSE IF StrLen(text) > MAX_TEXT_LEN
         THEN [ok |-> FALSE, text |-> <<>>,
               outcome |-> Raise("ValidationError",
                                 <<"Input text too long (max 8000 characters).">>, "")]
         ELSE [ok |-> TRUE, text |-> Strip(text, WHITESPACE), outcome |-> NoOutcome]

\* Lines 87-93: the outcome of input validation and the text passed on.
ValidateInput(text) ==
    IF ~Truthy(text) \/ ~Truthy(Strip(text, WHITESPACE))
    THEN [ok |-> FALSE, text |-> <<>>,
          outcome |-> Raise("ValidationError", <<"Input text cannot be empty.">>, "")]
    ELSE LET stripped == Strip(text, WHITESPACE) IN
         IF StrLen(stripped) > MAX_TEXT_LEN
         THEN [ok |-> FALSE, text |-> <<>>,
               outcome |-> Raise("ValidationError",
                                 <<"Input text too long (max 8000 characters).">>, "")]
         ELSE [ok |-> TRUE, text |-> stripped, outcome |-> NoOutcome]

\* ------------------------------------------------------- prompt builder

\* The two instruction strings, named by their opening words.
BASE_PROMPT ==
    "You convert plain text into a concise, descriptive, human-readable title for frontend display. [...] Return only the title text-no explanations."
SIMPLE_PROMPT ==
    "Convert text to a concise title (4-9 words, <=60 chars). Same language as input. Title Case for Latin scripts. No quotes/brackets/emojis. Return only the title."

LEGACY_MODELS == {"gpt-3.5-turbo"}

\* (A variant that also gives gpt-4 the simplified instruction.)
GetSystemPrompt_Gpt4Simplified(model) ==
    IF model \in LEGACY_MODELS \cup {"gpt-4"} THEN SIMPLE_PROMPT ELSE BASE_PROMPT

\* Client._get_system_prompt with self.model = model
GetSystemPrompt(model) ==
    IF model \in LEGACY_MODELS THEN SIMPLE_PROMPT ELSE BASE_PROMPT

\* ------------------------------------------------------------ requests

PROMPT_SEPARATOR == "\n\nText to convert to title: "

\* self._client.responses.create(...) of _generate_title_responses_api
ResponsesRequest(model, text) ==
    [api |-> "responses",
     kwargs |-> [model |-> model,
                 input |-> <<GetSystemPrompt(model), PROMPT_SEPARATOR, text>>,
                 reasoning |-> [effort |-> "minimal"],
                 text |-> [verbosity |-> "low"],
                 timeout |-> TIMEOUT]]

\* self._client.chat.completions.create(...) of _generate_title_chat_api
ChatRequest(model, text) ==
    [api |-> "chat",
     kwargs |-> [model |-> model,
                 messages |-> <<[role |-> "system", content |-> <<GetSystemPrompt(model)>>],
                                [role |-> "user", content |-> text]>>,
                 max_completion_tokens |-> MAX_COMPLETION_TOKENS,
                 temperature |-> TEMPERATURE_TENTHS,
                 timeout |-> TIMEOUT]]

\* (A variant that sends only gpt-5 itself to the responses call.)
Dispatch_Gpt5Only(model, text) ==
    IF model = "gpt-5" THEN ResponsesRequest(model, text)
    ELSE ChatRequest(model, text)

\* Lines 96-99: the request the call sends for self.model = model.
Dispatch(model, text) ==
    IF model \in GPT5_MODELS THEN ResponsesRequest(model, text)
    ELSE ChatRequest(model, text)

\* ------------------------------------------------------ post-processing

\* (A variant that leaves single quotes in place.)
CleanTitle_DoubleQuotesOnly(title) == Strip(Strip(title, WHITESPACE), DQUOTE)

\* title.strip().strip('"').strip("'")
CleanTitle(title) == Strip(Strip(Strip(title, WHITESPACE), DQUOTE), SQUOTE)

\* What the private method does with the upstream's text payload (None or a
\* string): return the cleaned title, or raise APIError.
ResponsesPostProcess(model, output_text) ==
    LET title == IF TruthyOpt(output_text) THEN output_text ELSE None IN
    IF ~TruthyOpt(title)
    THEN [raised |-> TRUE, value |-> <<>>,
          exc |-> Exc("APIError", <<"Model '", model, "' returned empty response.">>, NoStatus)]
    ELSE [raised |-> FALSE, value |-> CleanTitle(title.str), exc |-> Exc("", <<>>, NoStatus)]

ChatPostProcess(model, content) ==
    IF ~TruthyOpt(content)
    THEN [raised |-> TRUE, value |-> <<>>,
          exc |-> Exc("APIError", <<"OpenAI API returned empty response.">>, NoStatus)]
    ELSE [raised |-> FALSE, value |-> CleanTitle(content.str), exc |-> Exc("", <<>>, NoStatus)]

PostProcess(model, payload) ==
    IF model \in GPT5_MODELS THEN ResponsesPostProcess(model, payload)
    ELSE ChatPostProcess(model, payload)

\* ------------------------------------------------------ failure mapping

TYPE_ERROR_MSG == <<"'>=' not supported between instances of 'NoneType' and 'int'">>

\* (A variant whose server-error test is > 500.)
HandleException_Above500(e) ==
    IF e.status.has /\ e.status.numeric /\ e.status.code = STATUS_RATE_LIMIT
    THEN Raise("APIError", <<"Rate limit exceeded. Please try again later.">>, e.type)
    ELSE IF e.status.has /\ e.status.numeric /\ e.status.code = STATUS_UNAUTHORIZED
    THEN Raise("APIError", <<"Invalid API key.">>, e.type)
    ELSE IF e.status.has /\ ~e.status.numeric
    THEN Raise("TypeError", TYPE_ERROR_MSG, e.type)
    ELSE IF e.status.has /\ e.status.code > STATUS_SERVER_ERROR
    THEN Raise("APIError", <<"OpenAI API server error. Please try again later.">>, e.type)
    ELSE Raise("APIError", <<"Failed to generate title: ">> \o e.msg, e.type)

\* Lines 101-110: what the except clause raises for the exception e caught
\* in the guarded block.  A status_code that is not a number compares unequal
\* to 429 and 401 and makes e.status_code >= 500 raise TypeError.
HandleException(e) ==
    IF e.status.has /\ e.status.numeric /\ e.status.code = STATUS_RATE_LIMIT
    THEN Raise("APIError", <<"Rate limit exceeded. Please try again later.">>, e.type)
    ELSE IF e.status.has /\ e.status.numeric /\ e.status.code = STATUS_UNAUTHORIZED
    THEN Raise("APIError", <<"Invalid API key.">>, e.type)
    ELSE IF e.status.has /\ ~e.status.numeric
    THEN Raise("TypeError", TYPE_ERROR_MSG, e.type)
    ELSE IF e.status.has /\ e.status.code >= STATUS_SERVER_ERROR
    THEN Raise("APIError", <<"OpenAI API server error. Please try again later.">>, e.type)
    ELSE Raise("APIError", <<"Failed to generate title: ">> \o e.msg, e.type)

\* The rest of generate_title once the upstream call has returned payload.
OnUpstreamSuccess(model, payload) ==
    LET r == PostProcess(model, payload) IN
    IF r.raised THEN HandleException(r.exc) ELSE Return(r.value)

\* The rest of generate_title once the upstream call has raised e.
OnUpstreamFailure(model, e) == HandleException(e)

\* Lines 87-99: generate_title from its entry to the upstream call.  Either
\* validation raises and nothing is sent, or the one request goes out and the
\* call blocks on the upstream.
GenerateTitleBegin(model, text) ==
    LET v == ValidateInput(text) IN
    IF v.ok
    THEN [blocked |-> TRUE, sent |-> <<Dispatch(model, v.text)>>, outcome |-> NoOutcome]
    ELSE [blocked |-> FALSE, sent |-> <<>>, outcome |-> v.outcome]

\* ------------------------------------------------------------- cli.main

MsgLine(m) == [msg |-> m, str |-> <<>>]
StrLine(t) == [msg |-> <<>>, str |-> t]

CANCELLED == <<"\nOperation cancelled.">>
HELP_TEXT == <<"usage: typejson-titlecraft [-h] [--model MODEL] [--api-key API_KEY] [--verbose] [--stdin] [text]">>
TRACEBACK == <<"Traceback (most recent call last): ...">>

\* (A variant that prints the Error line to standard output.)
CliFinish_ErrorToStdout(outcome, verbose) ==
    IF outcome.kind = "return"
    THEN [stdout |-> <<StrLine(outcome.value)>>, stderr |-> <<>>, exit_code |-> 0]
    ELSE IF outcome.type \in TitleCraftErrors
    THEN [stdout |-> <<MsgLine(<<"Error: ">> \o outcome.msg)>>, stderr |-> <<>>,
          exit_code |-> 1]
    ELSE IF outcome.type = "KeyboardInterrupt"
    THEN [stdout |-> <<>>, stderr |-> <<MsgLine(CANCELLED)>>, exit_code |-> 1]
    ELSE [stdout |-> <<>>,
          stderr |-> <<MsgLine(<<"Unexpected error: ">> \o outcome.msg)>>
                       \o (IF verbose THEN <<MsgLine(TRACEBACK)>> ELSE <<>>),
          exit_code |-> 1]

\* Lines 106-120: what main does with the outcome of the guarded block.
CliFinish(outcome, verbose) ==
    IF outcome.kind = "return"
    THEN [stdout |-> <<StrLine(outcome.value)>>, stderr |-> <<>>, exit_code |-> 0]
    ELSE IF outcome.type \in TitleCraftErrors
    THEN [stdout |-> <<>>, stderr |-> <<MsgLine(<<"Error: ">> \o outcome.msg)>>,
          exit_code |-> 1]
    ELSE IF outcome.type = "KeyboardInterrupt"
    THEN [stdout |-> <<>>, stderr |-> <<MsgLine(CANCELLED)>>, exit_code |-> 1]
    ELSE [stdout |-> <<>>,
          stderr |-> <<MsgLine(<<"Unexpected error: ">> \o outcome.msg)>>
                       \o (IF verbose THEN <<MsgLine(TRACEBACK)>> ELSE <<>>),
          exit_code |-> 1]

\* Lines 77-104: main from the parsed arguments to the upstream call (or to
\* its exit, when it never gets that far).  stdin_data is what standard input
\* holds and interrupted whether reading it is interrupted.
CliBegin(args, stdin_data, interrupted, env) ==
    LET text == IF args.stdin THEN Strip(stdin_data, WHITESPACE) ELSE args.text.str
        base == [running |-> FALSE, client |-> NoClient, last_op |-> "none",
                 outcome |-> NoOutcome, sent |-> <<>>, input_text |-> <<>>,
                 stdout |-> <<>>, stderr |-> <<>>, exit_code |-> 1]
        v1 == IF args.verbose THEN <<MsgLine(<<"Using model: ", args.model>>)>> ELSE <<>>
        v2 == IF args.verbose
              THEN <<MsgLine(<<"Generating title for ", ToString(StrLen(text)),
                               " characters of text...">>)>>
              ELSE <<>>
        init == ClientInit(args.api_key, args.model, env)
        begin == GenerateTitleBegin(init.client.model, text)
    IN
    IF args.stdin /\ interrupted
    THEN [base EXCEPT !.stderr = <<MsgLine(CANCELLED)>>]
    ELSE IF args.stdin /\ ~Truthy(text)
    THEN [base EXCEPT !.stderr = <<MsgLine(<<"Error: No input provided via stdin.">>)>>]
    ELSE IF ~args.stdin /\ ~Truthy(text)
    THEN [base EXCEPT !.stderr = <<MsgLine(<<"Error: No text provided.">>)>>,
                      !.stdout = <<MsgLine(HELP_TEXT)>>]
    ELSE IF init.outcome.kind = "raise"
    THEN LET f == CliFinish(init.outcome, args.verbose) IN
         [base EXCEPT !.last_op = "init", !.outcome = init.outcome,
                      !.stdout = f.stdout, !.stderr = v1 \o f.stderr,
                      !.exit_code = f.exit_code]
    ELSE IF ~begin.blocked
    THEN LET f == CliFinish(begin.outcome, args.verbose) IN
         [base EXCEPT !.client = init.client, !.last_op = "generate_title",
                      !.outcome = begin.outcome, !.input_text = text,
                      !.stdout = f.stdout, !.stderr = v1 \o v2 \o f.stderr,
                      !.exit_code = f.exit_code]
    ELSE [base EXCEPT !.running = TRUE, !.client = init.client,
                      !.last_op = "generate_title", !.sent = begin.sent,
                      !.input_text = text, !.stderr = v1 \o v2, !.exit_code = 0]

\* --------------------------------------------------------------- state

VARIABLES
    env_key,      \* os.environ's OPENAI_API_KEY: None or a string
    client,       \* the Client object: self.model, the key given to OpenAI()
    pc,           \* "idle", "awaiting" (blocked in the upstream call), "exited"
    last_op,      \* "none", "init" or "generate_title": what outcome is of
    init_args,    \* the arguments of the last Client(...) call
    input_text,   \* the text argument of the current generate_title call
    sent,         \* the upstream requests of the current generate_title call
    upstream,     \* what the upstream answered to the current call
    outcome,      \* how the last operation ended: a return or a raise
    calls,        \* generate_title calls made on the client (at most MaxCalls)
    cli,          \* the CLI run in progress, if the process is the CLI
    stdout,       \* lines printed to standard output
    stderr,       \* lines printed to standard error
    exit_code     \* the process's exit status once pc = "exited"

vars == <<env_key, client, pc, last_op, init_args, input_text, sent, upstream, outcome,
          calls, cli, stdout, stderr, exit_code>>

cliVars == <<cli, stdout, stderr, exit_code>>

NoArgs == [stdin |-> FALSE, text |-> None, model |-> "", api_key |-> None,
           verbose |-> FALSE]
NoCli == [active |-> FALSE, args |-> NoArgs, stdin_data |-> <<>>, interrupted |-> FALSE]
NoInitArgs == [openai_api_key |-> None, model |-> ""]

NoUpstream == [kind |-> "none", payload |-> None, exc |-> Exc("", <<>>, NoStatus)]
UpstreamSuccess(p) == [kind |-> "success", payload |-> p, exc |-> Exc("", <<>>, NoStatus)]
UpstreamFailure(e) == [kind |-> "failure", payload |-> None, exc |-> e]
UpstreamInterrupt == [kind |-> "interrupt", payload |-> None, exc |-> Exc("", <<>>, NoStatus)]

\* ------------------------------------------------------------- actions

\* client = Client(openai_api_key, model), by a library caller.
Construct(openai_api_key, model) ==
    /\ pc = "idle"
    /\ ~cli.active
    /\ ~client.constructed
    /\ LET r == ClientInit(openai_api_key, model, env_key) IN
         /\ client' = r.client
         /\ outcome' = r.outcome
    /\ last_op' = "init"
    /\ init_args' = [openai_api_key |-> openai_api_key, model |-> model]
    /\ calls' = 0
    /\ input_text' = <<>>
    /\ sent' = <<>>
    /\ upstream' = NoUpstream
    /\ UNCHANGED <<env_key, pc, cliVars>>

\* client.generate_title(text), by a library caller, up to the upstream call.
GenerateTitle(text) ==
    /\ pc = "idle"
    /\ ~cli.active
    /\ client.constructed
    /\ calls < MaxCalls
    /\ LET b == GenerateTitleBegin(client.model, text) IN
         /\ sent' = b.sent
         /\ outcome' = b.outcome
         /\ pc' = IF b.blocked THEN "awaiting" ELSE "idle"
    /\ last_op' = "generate_title"
    /\ calls' = calls + 1
    /\ input_text' = text
    /\ upstream' = NoUpstream
    /\ UNCHANGED <<env_key, client, init_args, cliVars>>

\* The process run as the CLI: main() with parsed arguments args.
CliMain(args, stdin_data, interrupted) ==
    /\ pc = "idle"
    /\ ~cli.active
    /\ last_op = "none"
    /\ LET b == CliBegin(args, stdin_data, interrupted, env_key) IN
         /\ pc' = IF b.running THEN "awaiting" ELSE "exited"
         /\ client' = b.client
         /\ last_op' = b.last_op
         /\ outcome' = b.outcome
         /\ sent' = b.sent
         /\ input_text' = b.input_text
         /\ stdout' = b.stdout
         /\ stderr' = b.stderr
         /\ exit_code' = b.exit_code
         /\ calls' = IF b.last_op = "generate_title" THEN 1 ELSE 0
         /\ init_args' = IF b.last_op = "none" THEN NoInitArgs
                         ELSE [openai_api_key |-> args.api_key, model |-> args.model]
    /\ cli' = [active |-> TRUE, args |-> args, stdin_data |-> stdin_data,
               interrupted |-> interrupted]
    /\ upstream' = NoUpstream
    /\ UNCHANGED env_key

\* The end of the blocked generate_title call with outcome o, having sent
\* the requests s in all: back to the library caller, or through the rest of
\* main to the process's exit.
CompleteWith(o, s) ==
    /\ outcome' = o
    /\ sent' = s
    /\ IF cli.active
       THEN LET f == CliFinish(o, cli.args.verbose) IN
            /\ pc' = "exited"
            /\ stdout' = stdout \o f.stdout
            /\ stderr' = stderr \o f.stderr
            /\ exit_code' = f.exit_code
            /\ UNCHANGED cli
       ELSE /\ pc' = "idle"
            /\ UNCHANGED cliVars
    /\ UNCHANGED <<env_key, client, last_op, init_args, input_text, calls>>

\* generate_title sends nothing more once the upstream has answered.
Complete(o) == CompleteWith(o, sent)

\* The upstream call returns a response whose text payload is payload.
UpstreamReturns(payload) ==
    /\ pc = "awaiting"
    /\ upstream' = UpstreamSuccess(payload)
    /\ Complete(OnUpstreamSuccess(client.model, payload))

\* (A variant that sends the request again after a failure.)
UpstreamRaises_Retry(e) ==
    /\ pc = "awaiting"
    /\ upstream' = UpstreamFailure(e)
    /\ CompleteWith(OnUpstreamFailure(client.model, e), sent \o sent)

\* The upstream call raises e.
UpstreamRaises(e) ==
    /\ pc = "awaiting"
    /\ upstream' = UpstreamFailure(e)
    /\ Complete(OnUpstreamFailure(client.model, e))

\* KeyboardInterrupt while blocked: not an Exception, so the except clause of
\* generate_title does not catch it.
Interrupt ==
    /\ pc = "awaiting"
    /\ upstream' = UpstreamInterrupt
    /\ Complete(Raise("KeyboardInterrupt", <<>>, ""))

\* -------------------------------------------------------------- inputs

TEST_KEY == Rep("k", 1)
ENV_KEY == Rep("e", 1)

\* OPENAI_API_KEY unset, set to the empty string, set to a key.
EnvKeys == {None, Some(<<>>), Some(ENV_KEY)}
\* The openai_api_key argument: omitted, empty, a key.
ApiKeyArgs == {None, Some(<<>>), Some(TEST_KEY)}
ModelArgs == Range(SUPPORTED_MODELS) \cup {"invalid-model"}

LeadPads == {Rep(" ", k) : k \in 0..MaxPad}
TrailPads == {Rep("\n", k) : k \in 0..MaxPad}
\* Text bodies around the length limit: x...x, and x...x with a blank inside.
Bodies ==
    {Rep("x", k) : k \in {0, 1, MAX_TEXT_LEN, MAX_TEXT_LEN + 1}}
      \cup {Cat(Rep("x", 1), Cat(Rep(" ", 1), Rep("x", k))) :
              k \in {MAX_TEXT_LEN - 2, MAX_TEXT_LEN - 1}}
TextInputs == {Cat(l, Cat(b, t)) : l \in LeadPads, b \in Bodies, t \in TrailPads}

PayloadChars == {"a", " ", "\"", "'"}
PayloadRuns == {Run(c, k) : c \in PayloadChars, k \in 1..MaxRunLen}
\* The strings of at most k runs over PayloadChars.
RECURSIVE StringsUpTo(_)
StringsUpTo(k) ==
    IF k = 0 THEN {<<>>}
    ELSE LET shorter == StringsUpTo(k - 1) IN
         shorter \cup {Append(s, r) : s \in {t \in shorter : Len(t) = k - 1},
                                      r \in PayloadRuns}
Normal(s) == \A i \in 1..(Len(s) - 1) : s[i].ch # s[i + 1].ch
\* Upstream text payloads: None, or a string.
Payloads == {None} \cup {Some(s) : s \in {t \in StringsUpTo(MaxPayloadRuns) : Normal(t)}}
\* A few of them, for the runs that vary everything else.
FewPayloads ==
    {None, Some(<<>>), Some(Rep("a", 1)),
     Some(<<Run(" ", 1), Run("a", 1), Run(" ", 1)>>),
     Some(<<Run("\"", 1), Run("a", 1), Run("\"", 1)>>)}

StatusCodes == {400, 401, 429, 499, 500, 503}
Statuses == {NoStatus, NoneStatus} \cup {NumStatus(c) : c \in StatusCodes}
\* Exception() and Exception("Network error") with no status_code, and
\* Exception("Network error") with each status_code.
Failures ==
    {Exc("Exception", <<>>, NoStatus)}
      \cup {Exc("Exception", <<"Network error">>, st) : st \in Statuses}

CliArgs ==
    {[stdin |-> FALSE, text |-> Some(t), model |-> m, api_key |-> k, verbose |-> v] :
        t \in TextInputs, m \in Range(SUPPORTED_MODELS), k \in ApiKeyArgs, v \in BOOLEAN}
    \cup
    {[stdin |-> TRUE, text |-> None, model |-> m, api_key |-> k, verbose |-> v] :
        m \in Range(SUPPORTED_MODELS), k \in ApiKeyArgs, v \in BOOLEAN}

\* ------------------------------------------------------ specifications

Init ==
    /\ env_key \in EnvKeys
    /\ client = NoClient
    /\ pc = "idle"
    /\ last_op = "none"
    /\ init_args = NoInitArgs
    /\ input_text = <<>>
    /\ sent = <<>>
    /\ upstream = NoUpstream
    /\ outcome = NoOutcome
    /\ calls = 0
    /\ cli = NoCli
    /\ stdout = <<>>
    /\ stderr = <<>>
    /\ exit_code = 0

\* The caller is between calls / blocked in the upstream call.  (Each action
\* has its own guard; stating it before the quantifier keeps the inputs from
\* being enumerated in the states where the action cannot happen.)
Idle == pc = "idle"
Blocked == pc = "awaiting"

\* The client used as a library.
Next ==
    \/ Idle /\ \E k \in ApiKeyArgs, m \in ModelArgs : Construct(k, m)
    \/ Idle /\ \E t \in TextInputs : GenerateTitle(t)
    \/ Blocked /\ \E p \in FewPayloads : UpstreamReturns(p)
    \/ Blocked /\ \E e \in Failures : UpstreamRaises(e)
    \/ Interrupt

Spec == Init /\ [][Next]_vars

\* The client used as a library, over every upstream payload.
NextTitle ==
    \/ Idle /\ \E m \in Range(SUPPORTED_MODELS) : Construct(Some(TEST_KEY), m)
    \/ GenerateTitle(Rep("x", 1))
    \/ Blocked /\ \E p \in Payloads : UpstreamReturns(p)

\* OPENAI_API_KEY is unset and the key is passed to Client().
InitTitle == Init /\ env_key = None

SpecTitle == InitTitle /\ [][NextTitle]_vars

\* The process run as the CLI.
NextCli ==
    \/ Idle /\ \E a \in CliArgs :
         \E d \in (IF a.stdin THEN TextInputs ELSE {<<>>}),
            i \in (IF a.stdin THEN BOOLEAN ELSE {FALSE}) : CliMain(a, d, i)
    \/ Blocked /\ \E p \in FewPayloads : UpstreamReturns(p)
    \/ Blocked /\ \E e \in Failures : UpstreamRaises(e)
    \/ Interrupt

SpecCli == Init /\ [][NextCli]_vars

\* ----------------------------------------------------- shared notions

\* The current generate_title call has ended (returned or raised).
CallEnded == last_op = "generate_title" /\ pc # "awaiting"

\* The upstream answered the current call with a response.
GotResponse == last_op = "generate_title" /\ upstream.kind = "success"

\* The upstream failed the current call.
GotFailure == last_op = "generate_title" /\ upstream.kind = "failure"

QUOTES == DQUOTE \cup SQUOTE

\* r is t without its leading and trailing characters of chars: a middle part
\* of t, all of chars before and after it, none of chars at its two ends.
StrippedOf(r, t, chars) ==
    \E i \in 1..(Len(t) + 1), j \in 0..Len(t) :
        /\ r = IF i <= j THEN SubSeq(t, i, j) ELSE <<>>
        /\ \A k \in 1..(i - 1) : t[k].ch \in chars
        /\ \A k \in (j + 1)..Len(t) : t[k].ch \in chars
        /\ i <= j => t[i].ch \notin chars /\ t[j].ch \notin chars

\* The contiguous parts of t.
Parts(t) ==
    {<<>>} \cup {SubSeq(t, i, j) : i \in 1..Len(t), j \in 1..Len(t)}

\* s without its first / last character.
DropFirst(s) ==
    IF s[1].n = 1 THEN Tail(s) ELSE <<Run(s[1].ch, s[1].n - 1)>> \o Tail(s)
DropLast(s) ==
    IF s[Len(s)].n = 1 THEN SubSeq(s, 1, Len(s) - 1)
    ELSE SubSeq(s, 1, Len(s) - 1) \o <<Run(s[Len(s)].ch, s[Len(s)].n - 1)>>

\* s with one quote character removed from each end that has one.
StripOneLayer(s) ==
    LET a == IF s # <<>> /\ s[1].ch \in QUOTES THEN DropFirst(s) ELSE s IN
    IF a # <<>> /\ a[Len(a)].ch \in QUOTES THEN DropLast(a) ELSE a

EMPTY_RESPONSE == {"OpenAI API returned empty response.", "' returned empty response."}
Mentions(msg, fragments) == \E i \in 1..Len(msg) : msg[i] \in fragments

\* --------------------------------------------------------------- C1

\* C1 (as claimed): an upstream response whose text payload is empty or absent
\* makes generate_title raise an APIError that mentions an empty response, and
\* generate_title never returns an empty title, whatever the payload.
C1_EmptyPayloadRaisesAndNoBlankTitle ==
    /\ (GotResponse /\ ~TruthyOpt(upstream.payload))
         => /\ outcome.kind = "raise"
            /\ outcome.type = "APIError"
            /\ Mentions(outcome.msg, EMPTY_RESPONSE)
    /\ (GotResponse /\ outcome.kind = "return") => outcome.value # <<>>

\* --------------------------------------------------------------- C2

\* C2 (as claimed): for a non-empty upstream text, generate_title returns the
\* text with surrounding whitespace stripped and then one layer of surrounding
\* quote characters stripped, and no more than one layer.
C2_OneLayerOfQuotesStripped ==
    (GotResponse /\ TruthyOpt(upstream.payload))
      => /\ outcome.kind = "return"
         /\ outcome.value = StripOneLayer(Strip(upstream.payload.str, WHITESPACE))

\* C2 (amended): for a non-empty upstream text t, on either call shape,
\* generate_title returns t with its surrounding whitespace removed, then all
\* of its leading and trailing double quotes, then all of its leading and
\* trailing single quotes: so a text with no quote at either end of its
\* trimmed form comes back trimmed and otherwise unchanged, and "a" in double
\* quotes comes back as a.
C2_AllSurroundingQuotesStripped ==
    (GotResponse /\ TruthyOpt(upstream.payload))
      => LET t == upstream.payload.str IN
         /\ outcome.kind = "return"
         /\ \E a \in Parts(t) :
                /\ StrippedOf(a, t, WHITESPACE)
                /\ \E b \in Parts(a) :
                       /\ StrippedOf(b, a, DQUOTE)
                       /\ StrippedOf(outcome.value, b, SQUOTE)
         /\ \A a \in Parts(t) :
                (/\ StrippedOf(a, t, WHITESPACE)
                 /\ a # <<>>
                 /\ a[1].ch \notin QUOTES
                 /\ a[Len(a)].ch \notin QUOTES) => outcome.value = a
         /\ t = <<Run("\"", 1), Run("a", 1), Run("\"", 1)>>
                => outcome.value = Rep("a", 1)

\* C2 witness: each call shape has returned a title from which two layers of
\* double quotes were removed.
C2_Witness_Responses ==
    /\ GotResponse
    /\ client.model \in GPT5_MODELS
    /\ upstream.payload = Some(<<Run("\"", 2), Run("a", 1), Run("\"", 2)>>)
    /\ outcome = Return(Rep("a", 1))

C2_Witness ==
    /\ GotResponse
    /\ client.model \notin GPT5_MODELS
    /\ upstream.payload = Some(<<Run("\"", 2), Run("a", 1), Run("\"", 2)>>)
    /\ outcome = Return(Rep("a", 1))

\* --------------------------------------------------------------- C3

RATE_LIMIT_MSG == <<"Rate limit exceeded. Please try again later.">>
INVALID_KEY_MSG == <<"Invalid API key.">>
SERVER_ERROR_MSG == <<"OpenAI API server error. Please try again later.">>

C4_ValidationExactlyWhenEmptyOrTooLong ==
    last_op = "generate_title"
      => \E trimmed \in Parts(input_text) :
            /\ StrippedOf(trimmed, input_text, WHITESPACE)
            /\ (outcome.kind = "raise" /\ outcome.type = "ValidationError")
                 <=> (trimmed = <<>> \/ StrLen(trimmed) > 8000)

\* C4 witness: a text of more than 8000 characters whose trimmed form has
\* exactly 8000 has passed validation and been sent.
C4_Witness ==
    /\ last_op = "generate_title"
    /\ StrLen(input_text) > 8000
    /\ StrLen(Strip(input_text, WHITESPACE)) = 8000
    /\ pc = "awaiting"
    /\ Len(sent) = 1

\* --------------------------------------------------------------- C5

CredentialAvailable ==
    TruthyOpt(init_args.openai_api_key) \/ TruthyOpt(env_key)

ModelSupported ==
    init_args.model \in {"gpt-5", "gpt-5-mini", "gpt-5-nano", "gpt-4o",
                         "gpt-4o-mini", "gpt-4", "gpt-3.5-turbo"}

\* C5: Client(...) succeeds exactly when the model is supported and a
\* non-empty credential comes from the argument or, failing that, from
\* OPENAI_API_KEY; otherwise it raises ValidationError, about the model when
\* the model is unsupported and about the credential when the model is
\* supported and neither source has one.  On success the client's model is the
\* one requested.
C5_ConstructionSucceedsExactlyWhenConfigured ==
    last_op = "init"
      => /\ outcome.kind = "return" <=> (ModelSupported /\ CredentialAvailable)
         /\ outcome.kind = "return" <=> client.constructed
         /\ outcome.kind # "return"
              => /\ outcome.kind = "raise"
                 /\ outcome.type = "ValidationError"
                 /\ outcome.msg[1] = IF ModelSupported
                                     THEN "OpenAI API key required. Provide it via openai_api_key parameter "
                                     ELSE "Unsupported model '"
         /\ outcome.kind = "return"
              => /\ client.model = init_args.model
                 /\ client.api_key = IF TruthyOpt(init_args.openai_api_key)
                                     THEN init_args.openai_api_key.str
                                     ELSE env_key.str

\* C5 witness: a client has been built on the environment's key, the argument
\* being an empty string.
C5_Witness ==
    /\ last_op = "init"
    /\ init_args.openai_api_key = Some(<<>>)
    /\ env_key = Some(ENV_KEY)
    /\ client.constructed
    /\ client.api_key = ENV_KEY

\* --------------------------------------------------------------- C6

\* The text argument of the current call, trimmed.
TrimmedInput == Strip(input_text, WHITESPACE)

\* C6 (as claimed): for a model outside GPT5_MODELS and validated input, the
\* one upstream request is a chat call with model = the client's model,
\* max_tokens = 50, temperature = 0.3, timeout = 30.0 and two messages: the
\* system instruction, then the user message holding the trimmed input text.
C6_ChatRequestKeywordArguments ==
    (last_op = "generate_title" /\ client.model \notin GPT5_MODELS /\ sent # <<>>)
      => /\ Len(sent) = 1
         /\ sent[1].api = "chat"
         /\ LET kw == sent[1].kwargs IN
            /\ kw.model = client.model
            /\ "max_tokens" \in DOMAIN kw
            /\ kw["max_tokens"] = 50
            /\ kw.temperature = 3
            /\ kw.timeout = 30
            /\ Len(kw.messages) = 2
            /\ kw.messages[1].role = "system"
            /\ kw.messages[1].content \in {<<BASE_PROMPT>>, <<SIMPLE_PROMPT>>}
            /\ kw.messages[2].role = "user"
            /\ kw.messages[2].content = TrimmedInput

\* --------------------------------------------------------------- C7

CLASS_A == {"gpt-5", "gpt-5-mini", "gpt-5-nano"}
CLASS_B == {"gpt-4o", "gpt-4o-mini", "gpt-4", "gpt-3.5-turbo"}

\* C7: the models of GPT5_MODELS (class A) and the other supported models
\* (class B) are disjoint and together make up the supported set, and every
\* request a client sends has the shape of its model's class: class A the
\* responses call, whose input is one prompt made of the instruction and the
\* trimmed text and whose timeout is 30; class B the chat call with a message
\* list.
C7_DispatchByClass ==
    /\ GPT5_MODELS = CLASS_A
    /\ Range(SUPPORTED_MODELS) \ GPT5_MODELS = CLASS_B
    /\ \A i \in 1..Len(sent) :
         LET kw == sent[i].kwargs IN
         /\ client.model \in CLASS_A \cup CLASS_B
         /\ client.model \in CLASS_A
              => /\ sent[i].api = "responses"
                 /\ DOMAIN kw = {"model", "input", "reasoning", "text", "timeout"}
                 /\ kw.model = client.model
                 /\ kw.input[1] \in {BASE_PROMPT, SIMPLE_PROMPT}
                 /\ kw.input[3] = TrimmedInput
                 /\ kw.timeout = 30
         /\ client.model \in CLASS_B
              => /\ sent[i].api = "chat"
                 /\ "messages" \in DOMAIN kw
                 /\ "input" \notin DOMAIN kw
                 /\ kw.model = client.model

\* C7 witness: a gpt-5-nano client has its one responses request in flight,
\* for a text that had whitespace on both sides.
C7_Witness ==
    /\ pc = "awaiting"
    /\ client.model = "gpt-5-nano"
    /\ Len(sent) = 1
    /\ sent[1].api = "responses"
    /\ input_text = <<Run(" ", 1), Run("x", 1), Run("\n", 1)>>
    /\ sent[1].kwargs.input[3] = Rep("x", 1)

\* --------------------------------------------------------------- C8

\* The instruction a request carries.
InstructionOf(r) ==
    IF r.api = "responses" THEN r.kwargs.input[1] ELSE r.kwargs.messages[1].content[1]

\* C8: the instruction depends on the model alone: the simplified one for
\* gpt-3.5-turbo and for no other supported model, the full one for all the
\* others, the GPT5_MODELS among them; every request carries the instruction
\* of its client's model, on the first call and on later ones.
C8_PromptByModelAlone ==
    /\ BASE_PROMPT # SIMPLE_PROMPT
    /\ \A i \in 1..Len(SUPPORTED_MODELS) :
         GetSystemPrompt(SUPPORTED_MODELS[i]) =
           IF SUPPORTED_MODELS[i] = "gpt-3.5-turbo" THEN SIMPLE_PROMPT ELSE BASE_PROMPT
    /\ \A i \in 1..Len(sent) :
         InstructionOf(sent[i]) =
           IF client.model = "gpt-3.5-turbo" THEN SIMPLE_PROMPT ELSE BASE_PROMPT

\* C8 witness: the second call of a gpt-4 client carries the full instruction.
C8_Witness ==
    /\ calls = 2
    /\ client.model = "gpt-4"
    /\ Len(sent) = 1
    /\ InstructionOf(sent[1]) = BASE_PROMPT

\* --------------------------------------------------------------- C9

\* C9: a generate_title call sends no request when validation fails and
\* exactly one otherwise; while it waits there is one request and no outcome;
\* once the upstream has answered, the call has ended with that single request,
\* and a failure or an empty payload has ended it with an error.
C9_OneRequestNoRetry ==
    last_op = "generate_title"
      => /\ (outcome.kind = "raise" /\ outcome.type = "ValidationError")
              => sent = <<>> /\ upstream.kind = "none" /\ pc # "awaiting"
         /\ ~(outcome.kind = "raise" /\ outcome.type = "ValidationError")
              => Len(sent) = 1
         /\ pc = "awaiting" <=> (Len(sent) = 1 /\ upstream.kind = "none")
         /\ pc = "awaiting" <=> outcome.kind = "none"
         /\ upstream.kind # "none" => CallEnded /\ Len(sent) = 1
         /\ (GotFailure \/ (GotResponse /\ ~TruthyOpt(upstream.payload)))
              => outcome.kind = "raise"

\* C9 witness: a call has ended in an error on an upstream failure with
\* status 503, one request sent.
C9_Witness ==
    /\ CallEnded
    /\ GotFailure
    /\ upstream.exc.status = NumStatus(503)
    /\ outcome.kind = "raise"
    /\ Len(sent) = 1

\* -------------------------------------------------------------- C10

\* The CLI run has a text: a non-empty positional argument, or standard input
\* read to the end and not blank.
TextSupplied ==
    /\ cli.active
    /\ IF cli.args.stdin
       THEN ~cli.interrupted /\ Strip(cli.stdin_data, WHITESPACE) # <<>>
       ELSE cli.args.text.str # <<>>

LastLine(lines) == lines[Len(lines)]

\* C10: in a CLI run with a text, the title is the one thing ever printed to
\* standard output, and only when construction and generation both succeeded;
\* a ValidationError or an APIError ends the run with "Error: <message>" on
\* standard error, nothing on standard output and exit status 1; any other
\* exception with "Unexpected error: <message>" on standard error and status 1;
\* an interrupt with the cancellation notice and status 1.
C10_CliRendersOutcome ==
    TextSupplied
      => /\ stdout # <<>>
              => /\ pc = "exited"
                 /\ client.constructed
                 /\ last_op = "generate_title"
                 /\ outcome.kind = "return"
                 /\ stdout = <<StrLine(outcome.value)>>
         /\ pc = "exited" => outcome.kind \in {"return", "raise"}
         /\ (pc = "exited" /\ outcome.kind = "return") => exit_code = 0
         /\ (pc = "exited" /\ outcome.kind = "raise")
              => /\ exit_code = 1
                 /\ stdout = <<>>
                 /\ stderr # <<>>
                 /\ outcome.type \in {"ValidationError", "APIError"}
                      => LastLine(stderr) = MsgLine(<<"Error: ">> \o outcome.msg)
                 /\ outcome.type = "KeyboardInterrupt"
                      => LastLine(stderr) = MsgLine(CANCELLED)
                 /\ outcome.type \notin {"ValidationError", "APIError", "KeyboardInterrupt"}
                      => \E i \in 1..Len(stderr) :
                            stderr[i] = MsgLine(<<"Unexpected error: ">> \o outcome.msg)

\* C10 witness: a CLI run has exited with status 1 on an APIError, its Error
\* line on standard error and nothing on standard output.
C10_Witness ==
    /\ TextSupplied
    /\ pc = "exited"
    /\ outcome.kind = "raise"
    /\ outcome.type = "APIError"
    /\ LastLine(stderr) = MsgLine(<<"Error: ">> \o RATE_LIMIT_MSG)
    /\ stdout = <<>>
    /\ exit_code = 1

\* -------------------------------------------------------------- C11

\* C11 (as claimed): a generate_title call that ends on failed validation, on
\* an upstream response or on an upstream failure ends in a returned string, a
\* ValidationError or an APIError and in nothing else, whatever the failure's
\* status_code is (None included); the APIError that post-processing raises
\* for an empty payload is still an APIError when it leaves the call.
C11_OnlyThreeOutcomes ==
    (CallEnded /\ upstream.kind # "interrupt")
      => /\ \/ outcome.kind = "return"
            \/ outcome.kind = "raise" /\ outcome.type \in {"ValidationError", "APIError"}
         /\ (GotResponse /\ ~TruthyOpt(upstream.payload))
              => outcome.kind = "raise" /\ outcome.type = "APIError"

=============================================================================
